---- MODULE Spec2Model ----
(***************************************************************************)
(* A model of the item service of src/src/main.rs: an in-memory Vec<Item>  *)
(* behind one std::sync::Mutex, four actix-web handlers (create_item,      *)
(* get_items, update_item, delete_item) and the whole-file JSON            *)
(* persistence of load_items / save_items on "items.json".                 *)
(*                                                                         *)
(* Text is a sequence of one-character strings, so that serialisation,     *)
(* escaping and parsing are computed and not assumed.                      *)
(***************************************************************************)
EXTENDS Integers, Sequences, FiniteSets

\* ------------------------------------------------------------------ bounds

\* The longest collection the model lets create_item build.
MaxItems == 3

\* The number of requests of a run with finitely many requests.
MaxRequests == 3

\* The quota of a run with no limit on the number of requests.
Unlimited == 0 - 1

\* The handler threads that can be inside a request at the same time.
Workers == {"w1", "w2"}

\* The ids and names the requests draw from.  The second name holds the two
\* characters serde_json escapes and a character that closes a JSON array.
Ids == {1, 2}
Names == { <<"a">>, <<"\\", "\"", "]">> }

\* ------------------------------------------------------------------- Item

\* struct Item { id: usize, name: String }
Item == [id : Ids, name : Names]

NoWorker == "none"

\* --------------------------------------------------- Vec<Item> operations

\* A push that skips a record whose id the collection already holds.
PushUnique(items, item) ==
    IF \E i \in DOMAIN items : items[i].id = item.id THEN items ELSE Append(items, item)

\* items.push(item)
Push(items, item) == Append(items, item)

\* A scan that runs off the end onto the last element instead of None.
RECURSIVE FindFromClamped(_, _, _)
FindFromClamped(items, id, k) ==
    IF k > Len(items) THEN Len(items)
    ELSE IF items[k].id = id THEN k
    ELSE FindFromClamped(items, id, k + 1)

\* Iterator::find over items.iter_mut(): the index of the first element the
\* closure |i| i.id == id accepts, scanning from the front; 0 stands for None.
RECURSIVE FindFrom(_, _, _)
FindFrom(items, id, k) ==
    IF k > Len(items) THEN 0
    ELSE IF items[k].id = id THEN k
    ELSE FindFrom(items, id, k + 1)

\* A find that takes the last match (rposition) instead of the first.
RECURSIVE FindLastFrom(_, _, _)
FindLastFrom(items, id, k) ==
    IF k = 0 THEN 0
    ELSE IF items[k].id = id THEN k
    ELSE FindLastFrom(items, id, k - 1)

FindLast(items, id) == FindLastFrom(items, id, Len(items))

Find(items, id) == FindFrom(items, id, 1)

\* An update that renames every element with the id of the one found.
SetNameAll(items, k, name) ==
    [i \in DOMAIN items |->
        IF items[i].id = items[k].id THEN [id |-> items[i].id, name |-> name] ELSE items[i]]

\* existing_item.name = item.name.clone(), on the element find returned.
SetName(items, k, name) == [items EXCEPT ![k] = [id |-> items[k].id, name |-> name]]

\* An existence check that only asks whether the collection is empty.
AnyNonEmpty(items, id) == items # <<>>

\* items.iter().any(|i| i.id == id): stops at the first match.
RECURSIVE Any(_, _)
Any(items, id) ==
    IF items = <<>> THEN FALSE
    ELSE IF Head(items).id = id THEN TRUE
    ELSE Any(Tail(items), id)

\* A removal of the first match only (position + remove).
RECURSIVE RemoveFirst(_, _)
RemoveFirst(items, id) ==
    IF items = <<>> THEN <<>>
    ELSE IF Head(items).id = id THEN Tail(items)
    ELSE <<Head(items)>> \o RemoveFirst(Tail(items), id)

\* items.retain(|i| i.id != id): visits every element once, in order, and
\* keeps those the closure accepts.
RECURSIVE Retain(_, _)
Retain(items, id) ==
    IF items = <<>> THEN <<>>
    ELSE IF Head(items).id # id THEN <<Head(items)>> \o Retain(Tail(items), id)
    ELSE Retain(Tail(items), id)

\* -------------------------------------------- serde_json::to_string(items)

DigitChars == <<"0", "1", "2", "3", "4", "5", "6", "7", "8", "9">>

\* usize formatted in decimal, most significant digit first.
RECURSIVE Digits(_)
Digits(n) ==
    IF n < 10 THEN <<DigitChars[n + 1]>>
    ELSE Digits(n \div 10) \o <<DigitChars[(n % 10) + 1]>>

\* An escape that protects the quote and forgets the backslash.
RECURSIVE EscapeQuoteOnly(_)
EscapeQuoteOnly(name) ==
    IF name = <<>> THEN <<>>
    ELSE (IF Head(name) = "\"" THEN <<"\\", Head(name)>> ELSE <<Head(name)>>)
         \o EscapeQuoteOnly(Tail(name))

\* A JSON string body: the quote and the backslash are written with a
\* backslash before them, every other character of the model's alphabet as is.
RECURSIVE Escape(_)
Escape(name) ==
    IF name = <<>> THEN <<>>
    ELSE (IF Head(name) \in {"\"", "\\"} THEN <<"\\", Head(name)>> ELSE <<Head(name)>>)
         \o Escape(Tail(name))

\* #[derive(Serialize)] struct Item: {"id":<id>,"name":"<name>"}, fields in
\* declaration order, no white space.
SerItem(item) ==
    <<"{", "\"", "i", "d", "\"", ":">> \o Digits(item.id)
    \o <<",", "\"", "n", "a", "m", "e", "\"", ":", "\"">> \o Escape(item.name)
    \o <<"\"", "}">>

RECURSIVE SerItems(_)
SerItems(items) ==
    IF items = <<>> THEN <<>>
    ELSE IF Len(items) = 1 THEN SerItem(items[1])
    ELSE SerItem(Head(items)) \o <<",">> \o SerItems(Tail(items))

\* serde_json::to_string(items) for a Vec<Item>: a JSON array.
to_string(items) == <<"[">> \o SerItems(items) \o <<"]">>

\* ------------------------------------ serde_json::from_str::<Vec<Item>>(s)
\* The parser reads the compact form to_string writes: one array of objects
\* with the keys "id" and "name", each once, in either order.  The texts the
\* model holds in the file are those save_items wrote, their prefixes and
\* InitFiles; on all of them it answers as serde_json does.

\* The character at position p; the empty string past the end of the text.
At(s, p) == IF p \in 1..Len(s) THEN s[p] ELSE ""

Fail == [ok |-> FALSE, val |-> <<>>, pos |-> 0]

IsDigit(c) == \E d \in 1..10 : DigitChars[d] = c
DigitVal(c) == (CHOOSE d \in 1..10 : DigitChars[d] = c) - 1

\* An unsigned integer: "0", or a non-zero digit followed by digits.
RECURSIVE ParseDigits(_, _, _)
ParseDigits(s, p, acc) ==
    IF IsDigit(At(s, p)) THEN ParseDigits(s, p + 1, acc * 10 + DigitVal(s[p]))
    ELSE [ok |-> TRUE, val |-> acc, pos |-> p]

ParseNum(s, p) ==
    IF ~IsDigit(At(s, p)) THEN Fail
    ELSE IF s[p] = "0" THEN [ok |-> TRUE, val |-> 0, pos |-> p + 1]
    ELSE ParseDigits(s, p, 0)

\* The body of a string up to its closing quote.  A backslash takes the next
\* character literally when that is a quote, a backslash or a slash; the other
\* escapes stand for characters outside the model's alphabet and no text of
\* the model holds them.
RECURSIVE ParseStrBody(_, _, _)
ParseStrBody(s, p, acc) ==
    IF p > Len(s) THEN Fail
    ELSE IF s[p] = "\"" THEN [ok |-> TRUE, val |-> acc, pos |-> p + 1]
    ELSE IF s[p] = "\\" THEN
        IF At(s, p + 1) \in {"\"", "\\", "/"}
        THEN ParseStrBody(s, p + 2, Append(acc, s[p + 1]))
        ELSE Fail
    ELSE ParseStrBody(s, p + 1, Append(acc, s[p]))

ParseStr(s, p) == IF At(s, p) = "\"" THEN ParseStrBody(s, p + 1, <<>>) ELSE Fail

KeyId == <<"i", "d">>
KeyName == <<"n", "a", "m", "e">>

\* A parsed value under its field name; val is <<field, value>>.
Tagged(field, v) ==
    IF v.ok THEN [ok |-> TRUE, val |-> <<field, v.val>>, pos |-> v.pos] ELSE Fail

\* The value after the key k of an Item: a number for "id", a string for
\* "name".
FieldValue(s, k) ==
    IF ~k.ok \/ At(s, k.pos) # ":" THEN Fail
    ELSE IF k.val = KeyId THEN Tagged("id", ParseNum(s, k.pos + 1))
    ELSE IF k.val = KeyName THEN Tagged("name", ParseStr(s, k.pos + 1))
    ELSE Fail

\* One "key":value pair of an Item.
ParseField(s, p) == FieldValue(s, ParseStr(s, p))

\* The Item of the fields f and g once the object is closed: both fields have
\* to be there, neither twice.
MakeItem(s, f, g) ==
    IF ~g.ok \/ At(s, g.pos) # "}" \/ f.val[1] = g.val[1] THEN Fail
    ELSE [ok |-> TRUE,
          val |-> IF f.val[1] = "id" THEN [id |-> f.val[2], name |-> g.val[2]]
                  ELSE [id |-> g.val[2], name |-> f.val[2]],
          pos |-> g.pos + 1]

SecondField(s, f) ==
    IF ~f.ok \/ At(s, f.pos) # "," THEN Fail
    ELSE MakeItem(s, f, ParseField(s, f.pos + 1))

\* #[derive(Deserialize)] struct Item, from a JSON object.
ParseItem(s, p) ==
    IF At(s, p) # "{" THEN Fail ELSE SecondField(s, ParseField(s, p + 1))

\* The elements of the array after its "[", up to and including its "]".
RECURSIVE ParseElems(_, _, _)
AfterElem(s, e, acc) ==
    IF ~e.ok THEN Fail
    ELSE IF At(s, e.pos) = "," THEN ParseElems(s, e.pos + 1, Append(acc, e.val))
    ELSE IF At(s, e.pos) = "]" THEN [ok |-> TRUE, val |-> Append(acc, e.val), pos |-> e.pos + 1]
    ELSE Fail

ParseElems(s, p, acc) == AfterElem(s, ParseItem(s, p), acc)

\* Characters after the array are an error.
WholeText(s, r) == IF r.ok /\ r.pos = Len(s) + 1 THEN r ELSE Fail

\* serde_json::from_str: Ok(vec) or Err.
from_str(s) ==
    IF At(s, 1) # "[" THEN Fail
    ELSE IF At(s, 2) = "]" THEN WholeText(s, [ok |-> TRUE, val |-> <<>>, pos |-> 3])
    ELSE WholeText(s, ParseElems(s, 2, <<>>))

\* ------------------------------------------------------------ items.json

\* The file as the program meets it: missing, there but not openable, there
\* but not text (not UTF-8), or text.
FileMissing == [kind |-> "missing", text |-> <<>>]
FileUnopenable == [kind |-> "unopenable", text |-> <<>>]
FileBinary == [kind |-> "binary", text |-> <<>>]
FileText(s) == [kind |-> "text", text |-> s]

\* Some collection a former run saved: two records with the same id.
StoredItems == <<[id |-> 1, name |-> <<"a">>], [id |-> 1, name |-> <<"\\", "\"", "]">>]>>

\* What items.json can be when the process starts.
InitFiles ==
    { FileMissing, FileUnopenable, FileBinary,
      FileText(<<>>),
      FileText(<<"{", "}">>),
      FileText(to_string(<<>>)),
      FileText(to_string(StoredItems)),
      FileText(SubSeq(to_string(StoredItems), 1, Len(to_string(StoredItems)) - 1)) }

\* A load that unwraps the parse result instead of falling back to vec![].
load_items_unwrap(f) ==
    IF f.kind = "missing" THEN [panic |-> FALSE, items |-> <<>>]
    ELSE IF f.kind \in {"unopenable", "binary"} THEN [panic |-> TRUE, items |-> <<>>]
    ELSE LET r == from_str(f.text) IN [panic |-> ~r.ok, items |-> r.val]

\* load_items: the Vec it returns, or the panic of one of its expect calls.
load_items(f) ==
    IF f.kind = "missing" THEN [panic |-> FALSE, items |-> <<>>]
    ELSE IF f.kind = "unopenable" THEN [panic |-> TRUE, items |-> <<>>]
    ELSE IF f.kind = "binary" THEN [panic |-> TRUE, items |-> <<>>]
    ELSE LET r == from_str(f.text) IN
         [panic |-> FALSE, items |-> IF r.ok THEN r.val ELSE <<>>]

\* What write_all can leave in the truncated file when it fails: nothing, or
\* the first half of the data.
PartialWrites(data) == { SubSeq(data, 1, 0), SubSeq(data, 1, Len(data) \div 2) }

\* write_all at the start of an open file: the data replaces what was there as
\* far as it reaches.
Overwrite(old, data) == data \o SubSeq(old, Len(data) + 1, Len(old))

\* ------------------------------------------------------------------ state

VARIABLES
    phase,      \* "starting" (main before load_items), "serving", "failed"
    items,      \* the Vec<Item> inside AppState.items
    holder,     \* the worker holding the MutexGuard, or NoWorker
    poisoned,   \* the Mutex's poison flag
    file,       \* items.json
    pc,         \* each worker's place in its handler
    req,        \* each worker's decoded request
    out,        \* what the last step sent to a client, or NoOut
    refItems,   \* the reference collection: the same requests applied to it
    refAns,     \* the reference's answer to the request in the critical section
    lastSaved,  \* the collection of the last save_items that returned Ok(())
    gone,       \* the ids deleted with a 200 and not created since
    quota       \* the requests that may still arrive, or Unlimited

vars == <<phase, items, holder, poisoned, file, pc, req, out, refItems, refAns, lastSaved, gone, quota>>

NoReq == [op |-> "none"]
NoOut == [kind |-> "none"]
NoAns == [kind |-> "none"]
NoSave == [done |-> FALSE, items |-> <<>>]

\* The answers: a status with no body (HttpResponse::X().finish()), a status
\* with the collection as JSON (web::Json), and the rejection by an extractor.
Finish(status) == [status |-> status, body |-> "none"]
Json(v) == [status |-> 200, body |-> v]
BadRequest == [status |-> 400, body |-> "none"]

\* The method and the path of a request.
Target(q) == IF q.op \in {"update", "delete"} THEN [op |-> q.op, id |-> q.id] ELSE [op |-> q.op]

\* What a step sends: the response r of worker w to its request q, or nothing
\* because the handler panicked and the connection is dropped.
Sent(w, q, r) == [kind |-> "response", w |-> w, req |-> Target(q), resp |-> r]
Dropped(w, q) == [kind |-> "panic", w |-> w, req |-> Target(q)]

\* The requests that decode: the body of POST and PUT is an Item, the path of
\* PUT and DELETE an id.
Requests ==
    [op : {"create"}, item : Item]
    \cup [op : {"list"}]
    \cup [op : {"update"}, id : Ids, item : Item]
    \cup [op : {"delete"}, id : Ids]

\* The requests that do not decode: a body that is not an Item (the path of a
\* PUT may well name an existing item), or a path that is not an id.
Undecodable ==
    [op : {"create"}, fault : {"body"}]
    \cup [op : {"update"}, id : Ids, fault : {"body"}]
    \cup [op : {"update", "delete"}, fault : {"path"}]

\* What the extractor sends for an undecodable request: 400 for the body, 404
\* for the path.
Rejected(q) ==
    [kind |-> "rejected", req |-> q,
     resp |-> IF q.fault = "body" THEN BadRequest ELSE Finish(404)]

\* ---------------------------------------------------- the reference model
\* create appends at the end, update renames only the first record with the
\* id, delete removes every record with the id.

RefCreate(c, r) == c \o <<r>>

RefFound(c, id) == \E i \in DOMAIN c : c[i].id = id

RefUpdate(c, id, name) ==
    [i \in DOMAIN c |->
        IF c[i].id = id /\ (\A j \in 1..(i - 1) : c[j].id # id)
        THEN [c[i] EXCEPT !.name = name]
        ELSE c[i]]

RefDelete(c, id) == SelectSeq(c, LAMBDA r : r.id # id)

RefOutcome(c, id) == [kind |-> IF RefFound(c, id) THEN "found" ELSE "notfound"]

\* ------------------------------------------------------------------- Init

Init ==
    /\ phase = "starting"
    /\ items = <<>>
    /\ holder = NoWorker
    /\ poisoned = FALSE
    /\ file \in InitFiles
    /\ pc = [w \in Workers |-> "idle"]
    /\ req = [w \in Workers |-> NoReq]
    /\ out = NoOut
    /\ refItems = <<>>
    /\ refAns = NoAns
    /\ lastSaved = NoSave
    /\ gone = {}
    /\ quota = Unlimited

\* ---------------------------------------------------------------- actions

\* A startup that replaces a file it cannot parse by an empty collection.
StartupRepairs ==
    /\ phase = "starting"
    /\ LET l == load_items(file) IN
       /\ phase' = IF l.panic THEN "failed" ELSE "serving"
       /\ items' = l.items
       /\ refItems' = l.items
       /\ file' = IF file.kind = "text" /\ ~from_str(file.text).ok
                  THEN FileText(to_string(<<>>))
                  ELSE file
    /\ out' = NoOut
    /\ refAns' = NoAns
    /\ UNCHANGED <<holder, poisoned, pc, req, lastSaved, gone, quota>>

\* main: load_items, then the server starts.  A panic of load_items ends the
\* process before it serves.
Startup ==
    /\ phase = "starting"
    /\ LET l == load_items(file) IN
       /\ phase' = IF l.panic THEN "failed" ELSE "serving"
       /\ items' = l.items
       /\ refItems' = l.items
    /\ out' = NoOut
    /\ refAns' = NoAns
    /\ UNCHANGED <<holder, poisoned, file, pc, req, lastSaved, gone, quota>>

\* One more request arrives: allowed while the quota lasts.
Arrival ==
    /\ quota # 0
    /\ quota' = IF quota = Unlimited THEN quota ELSE quota - 1

\* The creates that are decoded and have not pushed yet.
PendingCreates == {v \in Workers : pc[v] \in {"lock", "body"} /\ req[v].op = "create"}

\* A request arrives at an idle worker and its extractors succeed.
Receive(w, r) ==
    /\ phase = "serving"
    /\ pc[w] = "idle"
    /\ r.op = "create" => Len(items) + Cardinality(PendingCreates) < MaxItems
    /\ Arrival
    /\ pc' = [pc EXCEPT ![w] = "lock"]
    /\ req' = [req EXCEPT ![w] = r]
    /\ out' = NoOut
    /\ refAns' = IF holder = NoWorker THEN NoAns ELSE refAns
    /\ UNCHANGED <<phase, items, holder, poisoned, file, refItems, lastSaved, gone>>

\* A rejection that comes after the file was opened for a save.
RejectAfterOpen(w, q) ==
    /\ phase = "serving"
    /\ pc[w] = "idle"
    /\ Arrival
    /\ file' = FileText(<<>>)
    /\ out' = Rejected(q)
    /\ refAns' = IF holder = NoWorker THEN NoAns ELSE refAns
    /\ UNCHANGED <<phase, items, holder, poisoned, pc, req, refItems, lastSaved, gone>>

\* A request whose body or path does not decode: the extractor answers and the
\* handler is not called.
Reject(w, q) ==
    /\ phase = "serving"
    /\ pc[w] = "idle"
    /\ Arrival
    /\ out' = Rejected(q)
    /\ refAns' = IF holder = NoWorker THEN NoAns ELSE refAns
    /\ UNCHANGED <<phase, items, holder, poisoned, file, pc, req, refItems, lastSaved, gone>>

\* A lock that does not wait for the guard to be dropped.
LockNoWait(w) ==
    /\ pc[w] = "lock"
    /\ ~poisoned
    /\ holder' = w
    /\ pc' = [pc EXCEPT ![w] = "body"]
    /\ out' = NoOut
    /\ refAns' = NoAns
    /\ UNCHANGED <<phase, items, poisoned, file, req, refItems, lastSaved, gone, quota>>

\* data.items.lock().unwrap() on a Mutex that is free and not poisoned.
Lock(w) ==
    /\ pc[w] = "lock"
    /\ holder = NoWorker
    /\ ~poisoned
    /\ holder' = w
    /\ pc' = [pc EXCEPT ![w] = "body"]
    /\ out' = NoOut
    /\ refAns' = NoAns
    /\ UNCHANGED <<phase, items, poisoned, file, req, refItems, lastSaved, gone, quota>>

\* A lock that takes the guard out of the poison error and goes on.
LockRecovers(w) ==
    /\ pc[w] = "lock"
    /\ holder = NoWorker
    /\ poisoned
    /\ holder' = w
    /\ pc' = [pc EXCEPT ![w] = "body"]
    /\ out' = NoOut
    /\ refAns' = NoAns
    /\ UNCHANGED <<phase, items, poisoned, file, req, refItems, lastSaved, gone, quota>>

\* data.items.lock().unwrap() on a poisoned Mutex: lock() returns Err, unwrap
\* panics, the guard inside the error is dropped.
LockPoisoned(w) ==
    /\ pc[w] = "lock"
    /\ holder = NoWorker
    /\ poisoned
    /\ pc' = [pc EXCEPT ![w] = "idle"]
    /\ req' = [req EXCEPT ![w] = NoReq]
    /\ out' = Dropped(w, req[w])
    /\ refAns' = NoAns
    /\ UNCHANGED <<phase, items, holder, poisoned, file, refItems, lastSaved, gone, quota>>

\* The handler returns: the guard is dropped and the response goes out.
Respond(w, r) ==
    /\ holder' = NoWorker
    /\ pc' = [pc EXCEPT ![w] = "idle"]
    /\ req' = [req EXCEPT ![w] = NoReq]
    /\ out' = Sent(w, req[w], r)

\* A panic that leaves the guard undropped: the Mutex stays locked.
PanicKeepsLock(w) ==
    /\ holder' = holder
    /\ poisoned' = TRUE
    /\ pc' = [pc EXCEPT ![w] = "idle"]
    /\ req' = [req EXCEPT ![w] = NoReq]
    /\ out' = Dropped(w, req[w])
    /\ refAns' = NoAns

\* The handler panics while it holds the guard: unwinding drops the guard,
\* which poisons the Mutex, and no response is sent.
Panic(w) ==
    /\ holder' = NoWorker
    /\ poisoned' = TRUE
    /\ pc' = [pc EXCEPT ![w] = "idle"]
    /\ req' = [req EXCEPT ![w] = NoReq]
    /\ out' = Dropped(w, req[w])
    /\ refAns' = NoAns

\* create_item after the lock: push, then on to save_items.
CreateBody(w) ==
    /\ pc[w] = "body" /\ req[w].op = "create"
    /\ items' = Push(items, req[w].item)
    /\ refItems' = RefCreate(refItems, req[w].item)
    /\ refAns' = [kind |-> "created"]
    /\ gone' = gone \ {req[w].item.id}
    /\ pc' = [pc EXCEPT ![w] = "save_open"]
    /\ out' = NoOut
    /\ UNCHANGED <<phase, holder, poisoned, file, req, lastSaved, quota>>

\* get_items after the lock: web::Json(items.clone()).
ListBody(w) ==
    /\ pc[w] = "body" /\ req[w].op = "list"
    /\ Respond(w, Json(items))
    /\ refAns' = [kind |-> "list", items |-> refItems]
    /\ UNCHANGED <<phase, items, poisoned, file, refItems, lastSaved, gone, quota>>

\* An update that answers without calling save_items.
UpdateBodyNoSave(w) ==
    /\ pc[w] = "body" /\ req[w].op = "update"
    /\ refAns' = RefOutcome(refItems, req[w].id)
    /\ refItems' = RefUpdate(refItems, req[w].id, req[w].item.name)
    /\ LET k == Find(items, req[w].id) IN
       /\ items' = IF k # 0 THEN SetName(items, k, req[w].item.name) ELSE items
       /\ Respond(w, Finish(IF k # 0 THEN 200 ELSE 404))
    /\ UNCHANGED <<phase, poisoned, file, lastSaved, gone, quota>>

\* An update that stores the whole body in the place of the item it found.
UpdateBodyReplace(w) ==
    /\ pc[w] = "body" /\ req[w].op = "update"
    /\ refAns' = RefOutcome(refItems, req[w].id)
    /\ refItems' = RefUpdate(refItems, req[w].id, req[w].item.name)
    /\ LET k == Find(items, req[w].id) IN
       IF k # 0
       THEN /\ items' = [items EXCEPT ![k] = req[w].item]
            /\ pc' = [pc EXCEPT ![w] = "save_open"]
            /\ out' = NoOut
            /\ UNCHANGED <<phase, holder, poisoned, file, req, lastSaved, gone, quota>>
       ELSE /\ Respond(w, Finish(404))
            /\ UNCHANGED <<phase, items, poisoned, file, lastSaved, gone, quota>>

\* update_item after the lock: the first item with the path's id gets the
\* body's name and save_items follows; with no such item, 404.
UpdateBody(w) ==
    /\ pc[w] = "body" /\ req[w].op = "update"
    /\ refAns' = RefOutcome(refItems, req[w].id)
    /\ refItems' = RefUpdate(refItems, req[w].id, req[w].item.name)
    /\ LET k == Find(items, req[w].id) IN
       IF k # 0
       THEN /\ items' = SetName(items, k, req[w].item.name)
            /\ pc' = [pc EXCEPT ![w] = "save_open"]
            /\ out' = NoOut
            /\ UNCHANGED <<phase, holder, poisoned, file, req, lastSaved, gone, quota>>
       ELSE /\ Respond(w, Finish(404))
            /\ UNCHANGED <<phase, items, poisoned, file, lastSaved, gone, quota>>

\* A delete that drops the guard after its check and removes without it.
DeleteBodyUnlocked(w) ==
    /\ pc[w] = "body" /\ req[w].op = "delete"
    /\ refAns' = RefOutcome(refItems, req[w].id)
    /\ IF Any(items, req[w].id)
       THEN /\ pc' = [pc EXCEPT ![w] = "retain"]
            /\ holder' = NoWorker
            /\ out' = NoOut
            /\ UNCHANGED <<phase, items, poisoned, file, req, refItems, lastSaved, gone, quota>>
       ELSE /\ Respond(w, Finish(404))
            /\ UNCHANGED <<phase, items, poisoned, file, refItems, lastSaved, gone, quota>>

\* delete_item after the lock, the check: with an item of that id on to
\* retain; with none, 404.
DeleteBody(w) ==
    /\ pc[w] = "body" /\ req[w].op = "delete"
    /\ refAns' = RefOutcome(refItems, req[w].id)
    /\ IF Any(items, req[w].id)
       THEN /\ pc' = [pc EXCEPT ![w] = "retain"]
            /\ out' = NoOut
            /\ UNCHANGED <<phase, items, holder, poisoned, file, req, refItems, lastSaved, gone, quota>>
       ELSE /\ Respond(w, Finish(404))
            /\ UNCHANGED <<phase, items, poisoned, file, refItems, lastSaved, gone, quota>>

\* delete_item, retain: every item of that id is dropped, then on to
\* save_items.
DeleteRetain(w) ==
    /\ pc[w] = "retain"
    /\ items' = Retain(items, req[w].id)
    /\ refItems' = RefDelete(refItems, req[w].id)
    /\ pc' = [pc EXCEPT ![w] = "save_open"]
    /\ out' = NoOut
    /\ UNCHANGED <<phase, holder, poisoned, file, req, refAns, lastSaved, gone, quota>>

\* An open that does not truncate: what the file held stays until it is
\* written over.
SaveOpenNoTruncate(w) ==
    /\ pc[w] = "save_open"
    /\ file' = IF file.kind = "text" THEN file ELSE FileText(<<>>)
    /\ lastSaved' = NoSave
    /\ pc' = [pc EXCEPT ![w] = "save_write"]
    /\ out' = NoOut
    /\ UNCHANGED <<phase, items, holder, poisoned, req, refItems, refAns, gone, quota>>

\* save_items, OpenOptions ... truncate(true).open(path): the file is there
\* and empty.
SaveOpen(w) ==
    /\ pc[w] = "save_open"
    /\ file' = FileText(<<>>)
    /\ lastSaved' = NoSave
    /\ pc' = [pc EXCEPT ![w] = "save_write"]
    /\ out' = NoOut
    /\ UNCHANGED <<phase, items, holder, poisoned, req, refItems, refAns, gone, quota>>

\* A failed open that puts the collection back to what the last save wrote.
SaveOpenFailsRollback(w) ==
    /\ pc[w] = "save_open"
    /\ items' = IF lastSaved.done THEN lastSaved.items ELSE items
    /\ Panic(w)
    /\ UNCHANGED <<phase, file, refItems, lastSaved, gone, quota>>

\* open fails: save_items returns Err by "?", the handler's expect panics.
SaveOpenFails(w) ==
    /\ pc[w] = "save_open"
    /\ Panic(w)
    /\ UNCHANGED <<phase, items, file, refItems, lastSaved, gone, quota>>

\* The status each handler answers after save_items returned Ok(()).
OkStatus(op) == IF op = "create" THEN 201 ELSE 200

\* save_items, to_string and write_all: the file holds the collection, the
\* handler answers.
SaveWrite(w) ==
    /\ pc[w] = "save_write"
    /\ file' = FileText(Overwrite(file.text, to_string(items)))
    /\ lastSaved' = [done |-> TRUE, items |-> items]
    /\ gone' = IF req[w].op = "delete" THEN gone \cup {req[w].id} ELSE gone
    /\ Respond(w, Finish(OkStatus(req[w].op)))
    /\ UNCHANGED <<phase, items, poisoned, refItems, refAns, quota>>

\* write_all fails: part of the data may be in the file; the handler's expect
\* panics.
SaveWriteFails(w) ==
    /\ pc[w] = "save_write"
    /\ \E s \in PartialWrites(to_string(items)) : file' = FileText(Overwrite(file.text, s))
    /\ Panic(w)
    /\ UNCHANGED <<phase, items, refItems, lastSaved, gone, quota>>

\* The process stops (killed, power loss) and is started again: memory is
\* gone, the file stays as it is.
Crash ==
    /\ phase = "serving"
    /\ phase' = "starting"
    /\ items' = <<>>
    /\ holder' = NoWorker
    /\ poisoned' = FALSE
    /\ pc' = [w \in Workers |-> "idle"]
    /\ req' = [w \in Workers |-> NoReq]
    /\ out' = NoOut
    /\ refItems' = <<>>
    /\ refAns' = NoAns
    /\ gone' = {}
    /\ UNCHANGED <<file, lastSaved, quota>>

Next ==
    \/ Startup
    \/ Crash
    \/ \E w \in Workers :
        \/ \E r \in Requests : Receive(w, r)
        \/ \E q \in Undecodable : Reject(w, q)
        \/ Lock(w)
        \/ LockPoisoned(w)
        \/ CreateBody(w)
        \/ ListBody(w)
        \/ UpdateBody(w)
        \/ DeleteBody(w)
        \/ DeleteRetain(w)
        \/ SaveOpen(w)
        \/ SaveOpenFails(w)
        \/ SaveWrite(w)
        \/ SaveWriteFails(w)

\* The steps of a run in which no file operation fails and the process is
\* not stopped.
NextNoFault ==
    \/ Startup
    \/ \E w \in Workers :
        \/ \E r \in Requests : Receive(w, r)
        \/ \E q \in Undecodable : Reject(w, q)
        \/ Lock(w)
        \/ CreateBody(w)
        \/ ListBody(w)
        \/ UpdateBody(w)
        \/ DeleteBody(w)
        \/ DeleteRetain(w)
        \/ SaveOpen(w)
        \/ SaveWrite(w)

SpecNoFault == Init /\ [][NextNoFault]_vars

Spec == Init /\ [][Next]_vars

\* A run with finitely many requests in which the process is not stopped:
\* MaxRequests requests arrive, at any time and at any worker.
InitFinite ==
    /\ phase = "starting"
    /\ items = <<>>
    /\ holder = NoWorker
    /\ poisoned = FALSE
    /\ file \in InitFiles
    /\ pc = [w \in Workers |-> "idle"]
    /\ req = [w \in Workers |-> NoReq]
    /\ out = NoOut
    /\ refItems = <<>>
    /\ refAns = NoAns
    /\ lastSaved = NoSave
    /\ gone = {}
    /\ quota = MaxRequests

\* The steps of worker w's handler once its request is decoded.
Handler(w) ==
    \/ Lock(w)
    \/ LockPoisoned(w)
    \/ CreateBody(w)
    \/ ListBody(w)
    \/ UpdateBody(w)
    \/ DeleteBody(w)
    \/ DeleteRetain(w)
    \/ SaveOpen(w)
    \/ SaveOpenFails(w)
    \/ SaveWrite(w)
    \/ SaveWriteFails(w)

NextFinite ==
    \/ Startup
    \/ \E w \in Workers :
        \/ \E r \in Requests : Receive(w, r)
        \/ \E q \in Undecodable : Reject(w, q)
        \/ Handler(w)

\* Each worker thread is scheduled: a handler that can take a step takes one,
\* and every file operation returns, with Ok or with Err.
SpecFinite ==
    /\ InitFinite
    /\ [][NextFinite]_vars
    /\ \A w \in Workers : WF_vars(Handler(w))

\* ================================================================= claims

\* The number of records of c with the given id.
CountId(c, id) == Cardinality({i \in DOMAIN c : c[i].id = id})

\* Worker w leaves the critical-section step of its handler for request kind
\* op while the process keeps running.
BodyStep(w, op) ==
    /\ pc[w] = "body" /\ req[w].op = op
    /\ phase' = "serving"
    /\ pc'[w] # "body"

\* C1: after any sequence of create, update and delete requests from any
\* initial collection, the collection equals the reference collection (create
\* appends, update renames the first match, delete removes every match), a
\* list answers with the reference collection, and an update or delete answers
\* 200 exactly when the reference found the id and 404 exactly when it did not.
C1_ReplayMatchesReference ==
    /\ phase = "serving" => items = refItems
    /\ out.kind = "response" /\ out.req.op = "list" =>
          refAns = [kind |-> "list", items |-> out.resp.body]
    /\ out.kind = "response" /\ out.req.op = "create" =>
          out.resp.status = 201 /\ refAns.kind = "created"
    /\ out.kind = "response" /\ out.req.op \in {"update", "delete"} =>
          \/ out.resp.status = 200 /\ refAns.kind = "found"
          \/ out.resp.status = 404 /\ refAns.kind = "notfound"

\* A list has answered with a collection holding two records of one id, after
\* a delete had succeeded.
C1_Witness ==
    /\ out.kind = "response" /\ out.req.op = "list"
    /\ gone # {}
    /\ \E i, j \in DOMAIN out.resp.body :
          /\ i < j
          /\ out.resp.body[i].id = out.resp.body[j].id
          /\ out.resp.body[i].name # out.resp.body[j].name

\* C2: create appends its record as the last element whatever ids the
\* collection holds: the length grows by one and the earlier records stay as
\* they were, in the same order; the handler goes on to save and takes no
\* rejecting path.
C2_CreateAppends ==
    [][\A w \in Workers :
        BodyStep(w, "create") =>
            /\ pc'[w] = "save_open"
            /\ Len(items') = Len(items) + 1
            /\ items'[Len(items')] = req[w].item
            /\ \A i \in 1..Len(items) : items'[i] = items[i]]_vars

\* A create has pushed a record whose id an earlier record already has.
C2_Witness ==
    \E w \in Workers :
        /\ pc[w] = "save_open" /\ req[w].op = "create"
        /\ Len(items) >= 2
        /\ items[Len(items)] = req[w].item
        /\ \E i \in 1..(Len(items) - 1) : items[i].id = req[w].item.id

\* C3: an update that finds its id changes the name of the first record with
\* that id and nothing else: the length, the order, the ids and every other
\* record, later records of the same id among them, stay as they were.
C3_UpdateFirstOnly ==
    [][\A w \in Workers :
        BodyStep(w, "update") /\ pc'[w] = "save_open" =>
            /\ Len(items') = Len(items)
            /\ \E k \in DOMAIN items :
                /\ items[k].id = req[w].id
                /\ \A j \in 1..(k - 1) : items[j].id # req[w].id
                /\ items'[k] = [id |-> req[w].id, name |-> req[w].item.name]
                /\ \A i \in DOMAIN items : i # k => items'[i] = items[i]]_vars

\* An update has renamed the first of two records of its id and the later one
\* keeps another name.
C3_Witness ==
    \E w \in Workers :
        /\ pc[w] = "save_open" /\ req[w].op = "update"
        /\ \E i, j \in DOMAIN items :
              /\ i < j
              /\ items[i].id = req[w].id /\ items[j].id = req[w].id
              /\ items[i].name = req[w].item.name
              /\ items[j].name # req[w].item.name

\* C4: a delete on a collection holding its id removes every record with that
\* id and leaves the other records as they were, in their order; it never takes
\* the 404 path, and the response it sends after the save is 200.
C4_DeleteRemovesAll ==
    [][\A w \in Workers :
        /\ BodyStep(w, "delete") /\ CountId(items, req[w].id) >= 1 =>
              pc'[w] = "retain" /\ items' = items
        /\ pc[w] = "retain" /\ phase' = "serving" /\ pc'[w] # "retain" =>
              /\ pc'[w] = "save_open"
              /\ CountId(items, req[w].id) >= 1
              /\ CountId(items', req[w].id) = 0
              /\ items' = SelectSeq(items, LAMBDA r : r.id # req[w].id)
        /\ pc[w] = "save_write" /\ req[w].op = "delete"
               /\ out'.kind = "response" /\ out'.w = w =>
              out'.resp = Finish(200)]_vars

\* A delete has removed two records of its id from the collection that is
\* still in the file, and kept a record of another id.
C4_Witness ==
    \E w \in Workers :
        /\ pc[w] = "save_open" /\ req[w].op = "delete"
        /\ lastSaved.done
        /\ CountId(lastSaved.items, req[w].id) >= 2
        /\ Len(items) >= 1
        /\ Len(lastSaved.items) = Len(items) + CountId(lastSaved.items, req[w].id)

C6_NotFoundNoSave ==
    [][\A w \in Workers : \A op \in {"update", "delete"} :
        BodyStep(w, op) /\ CountId(items, req[w].id) = 0 =>
            /\ out' = Sent(w, req[w], Finish(404))
            /\ pc'[w] = "idle"
            /\ items' = items
            /\ file' = file
            /\ lastSaved' = lastSaved]_vars

\* An update of an id no record has answered 404 while the collection and the
\* saved file hold records.
C6_Witness ==
    /\ out.kind = "response" /\ out.req.op = "update"
    /\ out.resp.status = 404
    /\ items # <<>>
    /\ lastSaved.done /\ file = FileText(to_string(items))

\* C7: with no write failure and no crash, under any interleaving of the
\* requests, whenever the lock is free and a mutation has been saved since
\* startup, the file holds exactly the serialisation of the collection in
\* memory.
C7_FileMirrorsMemory ==
    holder = NoWorker /\ lastSaved.done => file = FileText(to_string(items))

\* The lock is free after saved mutations, a delete among them, the
\* collection holds records and another request waits for the lock.
C7_Witness ==
    /\ holder = NoWorker /\ lastSaved.done
    /\ gone # {}
    /\ Len(items) >= 2
    /\ \E w \in Workers : pc[w] = "lock"

\* C8: what a completed save_items wrote, load_items reads back as the same
\* records with the same ids and names in the same order.
C8_RoundTrip ==
    lastSaved.done => load_items(file) = [panic |-> FALSE, items |-> lastSaved.items]

\* A fresh process is about to load a completed save of two records of one
\* id, one of them with a name that needs escaping.
C8_Witness ==
    /\ phase = "starting"
    /\ lastSaved.done
    /\ \E i, j \in DOMAIN lastSaved.items :
          /\ i < j
          /\ lastSaved.items[i].id = lastSaved.items[j].id
          /\ \E n \in DOMAIN lastSaved.items[j].name : lastSaved.items[j].name[n] = "\\"

\* The collections over the model's ids and names.
Collections == UNION {[1..n -> Item] : n \in 0..MaxItems}

\* The text is what to_string writes for some collection.
IsSerialized(s) == \E c \in Collections : to_string(c) = s

\* main leaves load_items.
LoadStep == phase = "starting" /\ phase' # "starting"

\* C9 as stated: whenever the file is missing or is not a stored collection,
\* whether unparsable text or not openable or not readable as text, load_items
\* returns an empty collection and the process starts.
C9_LoadNeverAborts ==
    [][LoadStep /\ (file.kind # "text" \/ ~IsSerialized(file.text)) =>
            phase' = "serving" /\ items' = <<>>]_vars

\* C9, amended: load_items returns an empty collection when the file is
\* missing or holds text that is no stored collection (empty and truncated
\* text too); when the file is there but cannot be opened or read as text, it
\* panics and the process does not start.
C9_LoadOfBadFile ==
    [][LoadStep =>
        /\ file.kind \in {"unopenable", "binary"} => phase' = "failed"
        /\ file.kind = "missing" => phase' = "serving" /\ items' = <<>>
        /\ file.kind = "text" /\ ~IsSerialized(file.text) =>
              phase' = "serving" /\ items' = <<>>]_vars

\* The process serves an empty collection that it loaded from a file holding
\* text that is no stored collection.
C9_Witness ==
    /\ phase = "serving" /\ ~poisoned /\ holder = NoWorker
    /\ items = <<>>
    /\ file.kind = "text" /\ file.text # <<>> /\ ~IsSerialized(file.text)

\* C10 as stated: every POST /items is answered, with 201 and the created
\* record in the body, or with 500 when the write failed.
C10_PostAnswered ==
    out.kind \in {"response", "panic"} /\ out.req.op = "create" =>
        /\ out.kind = "response"
        /\ \/ out.resp.status = 201 /\ out.resp.body # "none"
           \/ out.resp.status = 500

\* C11 as stated: in every reachable state, a state after a request was aborted
\* by a write failure while it held the lock among them, a list request is
\* answered with 200 and a copy of the collection as it is, in its order.
C11_ListNeverFails ==
    out.kind \in {"response", "panic"} /\ out.req.op = "list" =>
        out.kind = "response" /\ out.resp = Json(items)

\* The places of a handler between lock() and the drop of the guard.
Critical == {"body", "retain", "save_open", "save_write"}

\* The places of a handler between its mutation and the end of its file write.
Saving == {"save_open", "save_write"}

\* C12: a handler is at a place between lock() and the drop of its guard only
\* while it is the holder of the lock, so at most one handler is there at a
\* time and every save runs under the lock; and while a handler is between its
\* mutation and the end of its file write, a step of the running process that
\* changes the collection or the file is a step of that handler.
C12_MutualExclusion ==
    /\ [](\A w \in Workers : pc[w] \in Critical => holder = w)
    /\ [][\A w \in Workers :
            pc[w] \in Saving /\ phase' = "serving"
                    /\ (items' # items \/ file' # file) =>
                pc'[w] # pc[w]]_vars

\* A handler is writing the file of its mutation while another handler, with
\* a mutation of its own, waits for the lock.
C12_Witness ==
    \E w, v \in Workers :
        /\ pc[w] = "save_write" /\ holder = w
        /\ pc[v] = "lock" /\ req[v].op \in {"create", "update", "delete"}

\* C13: a list answers with the collection as it is while no other handler is
\* between lock() and the drop of its guard, so with the collection before or
\* after each mutation as a whole (of the records of an id that a delete in
\* flight names, all or none); and while a delete is between its check and
\* its removal, no other handler is in its critical section, and the step
\* that changes the collection is the removal itself, from a collection that
\* still holds a record of the id.
C13_NoIntermediateState ==
    [][\A w \in Workers :
        /\ BodyStep(w, "list") =>
              /\ out' = Sent(w, req[w], Json(items))
              /\ items = refItems /\ items' = items
              /\ \A v \in Workers \ {w} : pc[v] \notin Critical
        /\ pc[w] = "retain" /\ phase' = "serving" =>
              /\ \A v \in Workers \ {w} : pc'[v] \notin Critical
              /\ CountId(items, req[w].id) >= 1
              /\ items' # items => pc'[w] = "save_open"]_vars

\* A list has answered with two records of one id while a delete of that id
\* waits for the lock.
C13_Witness ==
    /\ out.kind = "response" /\ out.req.op = "list"
    /\ \E v \in Workers :
          /\ pc[v] = "lock" /\ req[v].op = "delete"
          /\ CountId(out.resp.body, req[v].id) >= 2

\* C14: no update changes the id of a record: the ids are the same, in the
\* same order, before and after it.  When the id b of the body is not the id p
\* of the path, p alone selects: the first record with id p gets the body's
\* name (with no record of id p the collection stays as it is and the answer
\* is 404), and no record with id b is touched.
C14_PathIdSelects ==
    [][\A w \in Workers :
        BodyStep(w, "update") =>
            /\ Len(items') = Len(items)
            /\ \A i \in DOMAIN items : items'[i].id = items[i].id
            /\ req[w].item.id # req[w].id =>
                  /\ \A i \in DOMAIN items :
                        items[i].id = req[w].item.id => items'[i] = items[i]
                  /\ CountId(items, req[w].id) >= 1 =>
                        \E k \in DOMAIN items :
                            /\ items[k].id = req[w].id
                            /\ \A j \in 1..(k - 1) : items[j].id # req[w].id
                            /\ items'[k].name = req[w].item.name
                  /\ CountId(items, req[w].id) = 0 =>
                        items' = items /\ out' = Sent(w, req[w], Finish(404))]_vars

\* An update whose body names another id than its path has renamed the record
\* of the path's id, and a record of the body's id keeps another name.
C14_Witness ==
    \E w \in Workers :
        /\ pc[w] = "save_open" /\ req[w].op = "update"
        /\ req[w].item.id # req[w].id
        /\ \E i, j \in DOMAIN items :
              /\ items[i] = [id |-> req[w].id, name |-> req[w].item.name]
              /\ items[j].id = req[w].item.id
              /\ items[j].name # req[w].item.name

\* Worker w's save fails: its handler panics at open or at write.
FailStep(w) == pc[w] \in Saving /\ out' = Dropped(w, req[w])

\* The text is a proper prefix of the data.
ProperPrefix(t, data) == Len(t) < Len(data) /\ t = SubSeq(data, 1, Len(t))

\* The file holds the serialisation of the collection in memory.
InSync == file = FileText(to_string(items))

\* C15: when the save of a create, update or delete fails, the collection in
\* memory stays as the mutation left it, while the file does not get it: a
\* failed open leaves the file as it was before the mutation (after a create
\* or a delete that is not the new collection), a failed write leaves a proper
\* prefix of the new serialisation.  While the process runs, a file that
\* differs from memory comes to agree with it only by a save that succeeds.
C15_NoRollback ==
    /\ [][\A w \in Workers :
            FailStep(w) =>
                /\ items' = items /\ items' = refItems'
                /\ pc[w] = "save_open" => file' = file
                /\ pc[w] = "save_open" /\ req[w].op \in {"create", "delete"} =>
                      ~InSync'
                /\ pc[w] = "save_write" =>
                      /\ file'.kind = "text"
                      /\ ProperPrefix(file'.text, to_string(items'))]_vars
    /\ [][phase = "serving" /\ phase' = "serving"
                /\ (items' # items \/ file' # file) /\ ~InSync /\ InSync' =>
            \E w \in Workers :
                /\ pc[w] = "save_write"
                /\ out' = Sent(w, req[w], Finish(OkStatus(req[w].op)))]_vars

\* The save of a create has failed at open: the new record is in memory, the
\* file still holds the collection of the last save, without it.
C15_Witness ==
    /\ out.kind = "panic" /\ out.req.op = "create"
    /\ poisoned
    /\ lastSaved.done /\ file = FileText(to_string(lastSaved.items))
    /\ Len(items) = Len(lastSaved.items) + 1
    /\ \A i \in DOMAIN lastSaved.items : items[i] = lastSaved.items[i]

\* C16: a startup that finds text it cannot parse serves an empty collection
\* and leaves the file as it is; the file changes only in the save of a
\* handler, so it keeps its content through every list and every update or
\* delete that finds nothing; and a save that succeeds leaves in the file the
\* serialisation of the collection in memory and nothing else.
C16_UnparsableFileKept ==
    [][/\ LoadStep /\ file.kind = "text" /\ ~IsSerialized(file.text) =>
            phase' = "serving" /\ items' = <<>> /\ file' = file
       /\ file' # file =>
            \E w \in Workers : pc[w] \in Saving /\ pc'[w] # pc[w]
       /\ \A w \in Workers :
            /\ BodyStep(w, "list") => file' = file
            /\ BodyStep(w, "update") /\ out'.kind = "response" => file' = file
            /\ BodyStep(w, "delete") /\ out'.kind = "response" => file' = file
            /\ pc[w] = "save_write" /\ out' = Sent(w, req[w], Finish(OkStatus(req[w].op))) =>
                  items' = items /\ file' = FileText(to_string(items'))]_vars

\* The process started on text it could not parse, has saved nothing, and a
\* delete has just answered 404: memory is empty, the file holds the old text.
C16_Witness ==
    /\ phase = "serving" /\ items = <<>> /\ ~lastSaved.done
    /\ file.kind = "text" /\ file.text # <<>> /\ ~from_str(file.text).ok
    /\ out.kind = "response" /\ out.req.op = "delete" /\ out.resp.status = 404

\* C17: save_items is not atomic: between its open and its write the file is
\* empty whatever the collection holds, the process can stop there, and when
\* it does, the file stays empty and the load_items of the next start returns
\* an empty collection.
C17_SaveNotAtomic ==
    /\ [](\A w \in Workers :
            pc[w] = "save_write" => file = FileText(<<>>) /\ ENABLED Crash)
    /\ [][(\E w \in Workers : pc[w] = "save_write") /\ phase' = "starting" =>
            /\ file' = FileText(<<>>)
            /\ load_items(file') = [panic |-> FALSE, items |-> <<>>]]_vars

\* An update is between the open and the write of its save: the collection
\* held records before it and holds them after it, the last save is gone from
\* the file, and the process may stop here.
C17_Witness ==
    \E w \in Workers :
        /\ pc[w] = "save_write" /\ req[w].op = "update"
        /\ Len(items) >= 2
        /\ file = FileText(<<>>)
        /\ load_items(file).items = <<>>
        /\ ENABLED Crash

\* C18: a create or update whose body does not decode, and an update or delete
\* whose path id does not decode, is answered without its handler running: no
\* worker moves to the lock or to a save, the lock and its poison flag, the
\* collection and the file stay as they are, also when the path of the update
\* names a record of the collection.
C18_RejectedBeforeLock ==
    [][out'.kind = "rejected" =>
        /\ out'.resp.status \in {400, 404}
        /\ pc' = pc /\ req' = req
        /\ holder' = holder /\ poisoned' = poisoned
        /\ items' = items /\ refItems' = refItems
        /\ file' = file /\ lastSaved' = lastSaved]_vars

\* An update with a body that does not decode was rejected although its path
\* names a record of the collection, which is saved in the file.
C18_Witness ==
    /\ out.kind = "rejected"
    /\ out.req.op = "update" /\ out.req.fault = "body"
    /\ CountId(items, out.req.id) >= 1
    /\ lastSaved.done /\ InSync

\* C19: once a handler has panicked at its save while it held the lock, and
\* for as long as the process runs, the Mutex stays poisoned, the collection
\* and the file do not change, no handler gets past lock(): every request
\* that comes to lock() panics there, and no create, list, update or delete
\* is answered.
C19_FrozenAfterAbort ==
    [][poisoned /\ phase' = "serving" =>
        /\ poisoned'
        /\ items' = items /\ file' = file /\ lastSaved' = lastSaved
        /\ out'.kind # "response"
        /\ \A w \in Workers :
              /\ pc'[w] \in {"idle", "lock"}
              /\ pc[w] = "lock" /\ pc'[w] # "lock" =>
                    out' = Dropped(w, req[w])]_vars

\* After a save failed, a list that came later has panicked at lock(), while
\* the collection holds records.
C19_Witness ==
    /\ poisoned
    /\ out.kind = "panic" /\ out.req.op = "list"
    /\ items # <<>>

\* C20: in a run of finitely many requests, with every worker scheduled and
\* every file operation returning, every request that reached its handler
\* leaves it (answered or by a panic), and a lock that is held is released; a
\* handler waiting at lock() is never the holder, and a handler that panics
\* leaves the lock free.
C20_NoDeadlock ==
    /\ \A w \in Workers : (pc[w] # "idle") ~> (pc[w] = "idle")
    /\ (holder # NoWorker) ~> (holder = NoWorker)
    /\ [](\A w \in Workers : pc[w] = "lock" => holder # w)
    /\ [][\A w \in Workers :
            out'.kind = "panic" /\ out'.w = w =>
                holder' = NoWorker /\ pc'[w] = "idle"]_vars

\* All requests of the run have arrived and every handler is done, the last
\* one by a panic at a poisoned lock; the lock is free.
C20_Witness ==
    /\ quota = 0
    /\ \A w \in Workers : pc[w] = "idle"
    /\ holder = NoWorker /\ poisoned
    /\ out.kind = "panic" /\ out.req.op \in {"list", "update"}

====
